---------------------------- MODULE Spec2Model ----------------------------
(***************************************************************************)
(* Model of src/src/App.vue (yodobashi-to-zaim): the CSV tokenizer, the    *)
(* statement-row mapper, the Zaim CSV writer and the component's state     *)
(* (files, entries, errors, isProcessing, settings, downloadUrl) with its  *)
(* asynchronous load handlers.                                             *)
(*                                                                         *)
(* A JavaScript string is a sequence of characters; a character is a TLA+  *)
(* string.  A run of ordinary characters that the code never inspects one  *)
(* by one (a Japanese label, a file name) is written as one element.       *)
(***************************************************************************)
EXTENDS Integers, Sequences, FiniteSets, TLC

VARIABLES
    files,          \* files.value: the File objects shown (file ids)
    entries,        \* entries.value: the record list
    errors,         \* errors.value: the messages shown
    isProcessing,   \* isProcessing.value
    settings,       \* the reactive settings object
    downloadUrl,    \* downloadUrl.value
    calls,          \* every started handleFiles / handleLoadSample call, in start order
    entriesBy,      \* history: index in calls of the call whose commit wrote entries, 0 if none
    fnStage,        \* pure-function harness: "input" | "done" | "idle"
    fnArg,          \* pure-function harness: the arguments
    fnResult        \* pure-function harness: the value returned

vars == <<files, entries, errors, isProcessing, settings, downloadUrl, calls,
          entriesBy, fnStage, fnArg, fnResult>>

appVars == <<files, entries, errors, isProcessing, settings, downloadUrl, calls, entriesBy>>
fnVars == <<fnStage, fnArg, fnResult>>

---------------------------------------------------------------------------
(* Characters and strings *)

QUOTE == "\""
COMMA == ","
LF == "\n"
CR == "\r"

Digits == {"0", "1", "2", "3", "4", "5", "6", "7", "8", "9"}

\* The characters String.prototype.trim removes (WhiteSpace and LineTerminator)
\* among those the model uses.
WhiteSpace == {" ", "\t", "\f", LF, CR}

RECURSIVE trimStart(_)
trimStart(s) ==
    IF s # <<>> /\ Head(s) \in WhiteSpace THEN trimStart(Tail(s)) ELSE s

RECURSIVE trimEnd(_)
trimEnd(s) ==
    IF s # <<>> /\ s[Len(s)] \in WhiteSpace
    THEN trimEnd(SubSeq(s, 1, Len(s) - 1))
    ELSE s

\* String.prototype.trim
trim(s) == trimEnd(trimStart(s))

\* All strings of length at most n over the alphabet
StringsUpTo(alphabet, n) == UNION {[1..k -> alphabet] : k \in 0..n}

Contains(s, chars) == \E i \in 1..Len(s) : s[i] \in chars

RECURSIVE Flatten(_)
Flatten(seqs) ==
    IF seqs = <<>> THEN <<>> ELSE Head(seqs) \o Flatten(Tail(seqs))

\* Array.prototype.join
RECURSIVE join(_, _)
join(parts, sep) ==
    IF parts = <<>> THEN <<>>
    ELSE IF Len(parts) = 1 THEN parts[1]
    ELSE parts[1] \o sep \o join(Tail(parts), sep)

---------------------------------------------------------------------------
(* decodeCsv: the buffer is given by the two decodings TextDecoder makes   *)
(* of it; the function counts U+FFFD in each and picks one.                *)

REPLACEMENT == "\\uFFFD"

countBad(text) == Cardinality({i \in 1..Len(text) : text[i] = REPLACEMENT})

decodeCsv(buffer) ==
    LET shiftJisText == buffer.shiftJis
        utf8Text == buffer.utf8
        shiftBad == countBad(shiftJisText)
        utf8Bad == countBad(utf8Text)
    IN  IF shiftBad <= utf8Bad THEN shiftJisText ELSE utf8Text

---------------------------------------------------------------------------
(* parseCsv: the loop over text[i], with rows, row, field, inQuotes        *)

\* row.push(field.trim()): every field is trimmed when pushed, quoted or not
pushField(row, field) == Append(row, trim(field))

\* One turn of the for loop, from the loop's state st = [i, rows, row, field,
\* inQuotes] (i counts from 1); past the end of the text the loop has stopped.
parseCsvStep(text, st) ==
    IF st.i > Len(text) THEN st
    ELSE LET char == text[st.i]
             next == [st EXCEPT !.i = st.i + 1]
         IN
         IF st.inQuotes
         THEN IF char = QUOTE
              THEN IF st.i + 1 <= Len(text) /\ text[st.i + 1] = QUOTE
                   THEN [st EXCEPT !.i = st.i + 2, !.field = Append(st.field, QUOTE)]
                   ELSE [next EXCEPT !.inQuotes = FALSE]
              ELSE [next EXCEPT !.field = Append(st.field, char)]
         ELSE IF char = QUOTE
              THEN [next EXCEPT !.inQuotes = TRUE]
         ELSE IF char = COMMA
              THEN [next EXCEPT !.row = pushField(st.row, st.field), !.field = <<>>]
         ELSE IF char = LF
              THEN LET r == pushField(st.row, st.field) IN
                   [next EXCEPT !.rows = IF Len(r) > 1 \/ r[1] # <<>>
                                         THEN Append(st.rows, r) ELSE st.rows,
                                !.row = <<>>, !.field = <<>>]
         ELSE IF char = CR
              THEN next
         ELSE [next EXCEPT !.field = Append(st.field, char)]

\* k turns of the loop (halved, to keep the evaluation shallow)
RECURSIVE parseCsvTurns(_, _, _)
parseCsvTurns(text, st, k) ==
    IF k = 0 THEN st
    ELSE IF k = 1 THEN parseCsvStep(text, st)
    ELSE LET mid == parseCsvTurns(text, st, k \div 2) IN
         IF mid.i > Len(text) THEN mid
         ELSE parseCsvTurns(text, mid, k - (k \div 2))

\* The loop takes at most Len(text) turns; then the last field and row are flushed
parseCsv(text) ==
    LET start == [i |-> 1, rows |-> <<>>, row |-> <<>>, field |-> <<>>, inQuotes |-> FALSE]
        end == parseCsvTurns(text, start, Len(text))
    IN  IF end.field # <<>> \/ Len(end.row) > 0
        THEN Append(end.rows, pushField(end.row, end.field))
        ELSE end.rows

---------------------------------------------------------------------------
(* Numbers.  An amount is a JavaScript number; the model holds it exactly, *)
(* as the integer amount * 10^FracDigits.  The strings the model parses    *)
(* have at most FracDigits fractional digits and far fewer than the 15     *)
(* significant digits a double holds, so parsing and printing are exact.   *)

MaxAmountLen == 3

FracDigits == MaxAmountLen

RECURSIVE Pow10(_)
Pow10(n) == IF n = 0 THEN 1 ELSE 10 * Pow10(n - 1)

Scale == Pow10(FracDigits)

DigitValue(c) == CHOOSE v \in 0..9 : <<"0", "1", "2", "3", "4", "5", "6", "7", "8", "9">>[v + 1] = c

DigitChar(v) == <<"0", "1", "2", "3", "4", "5", "6", "7", "8", "9">>[v + 1]

RECURSIVE ToNat(_)
ToNat(digits) ==
    IF digits = <<>> THEN 0
    ELSE 10 * ToNat(SubSeq(digits, 1, Len(digits) - 1)) + DigitValue(digits[Len(digits)])

RECURSIVE digitPrefix(_)
digitPrefix(s) ==
    IF s # <<>> /\ Head(s) \in Digits THEN <<Head(s)>> \o digitPrefix(Tail(s)) ELSE <<>>

\* Number.parseFloat on a string without letters: leading white space, an
\* optional sign, then the longest prefix digits[.digits] or .digits; NaN when
\* there is none.  The result is [nan, val], val being the number * Scale.
parseFloat(str) ==
    LET s == trimStart(str)
        signed == s # <<>> /\ s[1] \in {"+", "-"}
        sign == IF s # <<>> /\ s[1] = "-" THEN -1 ELSE 1
        body == IF signed THEN Tail(s) ELSE s
        intPart == digitPrefix(body)
        rest == SubSeq(body, Len(intPart) + 1, Len(body))
        fracPart == IF rest # <<>> /\ rest[1] = "." THEN digitPrefix(Tail(rest)) ELSE <<>>
    IN  IF intPart = <<>> /\ fracPart = <<>>
        THEN [nan |-> TRUE, val |-> 0]
        ELSE [nan |-> FALSE,
              val |-> sign * (ToNat(intPart) * Scale
                              + ToNat(fracPart) * Pow10(FracDigits - Len(fracPart)))]

\* Number.isFinite: parseFloat gives Infinity only past 308 digits
isFinite(x) == ~x.nan

\* Math.abs
abs(v) == IF v < 0 THEN -v ELSE v

RECURSIVE NatToString(_)
NatToString(n) ==
    IF n < 10 THEN <<DigitChar(n)>> ELSE NatToString(n \div 10) \o <<DigitChar(n % 10)>>

RECURSIVE stripZeros(_)
stripZeros(digits) ==
    IF digits # <<>> /\ digits[Len(digits)] = "0"
    THEN stripZeros(SubSeq(digits, 1, Len(digits) - 1))
    ELSE digits

RECURSIVE padLeft(_, _)
padLeft(digits, n) == IF Len(digits) >= n THEN digits ELSE padLeft(<<"0">> \o digits, n)

\* Number.prototype.toString of a non-negative amount (below 1e21, and not
\* below 1e-6 unless zero, so never in exponent form)
numberToString(amount) ==
    LET whole == amount \div Scale
        frac == amount % Scale
    IN  IF frac = 0 THEN NatToString(whole)
        ELSE NatToString(whole) \o <<".">> \o stripZeros(padLeft(NatToString(frac), FracDigits))

---------------------------------------------------------------------------
(* parseAmount and convertToEntries *)

\* value.replace(/[^\d.-]/g, '')
cleanAmount(value) == SelectSeq(value, LAMBDA c : c \in Digits \cup {".", "-"})

\* Mutant of parseAmount: the sign is kept
parseAmountSigned(value) ==
    LET amount == parseFloat(cleanAmount(value))
    IN  IF isFinite(amount) THEN amount.val ELSE 0

parseAmount(value) ==
    LET cleaned == cleanAmount(value)
        amount == parseFloat(cleaned)
    IN  IF isFinite(amount) THEN abs(amount.val) ELSE 0

\* /^\d{4}[/-]\d{2}[/-]\d{2}$/ : each separator is matched on its own
datePattern(date) ==
    /\ Len(date) = 10
    /\ \A i \in {1, 2, 3, 4, 6, 7, 9, 10} : date[i] \in Digits
    /\ date[5] \in {"/", "-"}
    /\ date[8] \in {"/", "-"}

\* date.replace(/\//g, '-')
normalizeDate(date) == [i \in 1..Len(date) |-> IF date[i] = "/" THEN "-" ELSE date[i]]

\* row[k] ?? fallback : the fallback is taken only when row has no index k
\* (an empty string is a value, not a missing one)
amountColumn(row) ==
    IF Len(row) >= 6 THEN row[6]
    ELSE IF Len(row) >= 3 THEN row[3]
    ELSE <<>>

\* One turn of the loop of convertToEntries: the records the row adds (none or one)
convertRow(row, source) ==
    LET date == trim(IF Len(row) >= 1 THEN row[1] ELSE <<>>)
        store == trim(IF Len(row) >= 2 THEN row[2] ELSE <<>>)
        amountCandidate == trim(amountColumn(row))
        amount == parseAmount(amountCandidate)
    IN  IF date = <<>> \/ ~datePattern(date) THEN <<>>
        ELSE IF amount = 0 THEN <<>>
        ELSE << [date |-> normalizeDate(date), store |-> store,
                 amount |-> amount, source |-> source] >>

RECURSIVE convertToEntries(_, _)
convertToEntries(rows, source) ==
    IF rows = <<>> THEN <<>>
    ELSE convertRow(Head(rows), source) \o convertToEntries(Tail(rows), source)

---------------------------------------------------------------------------
(* buildZaimCsv and escapeCsv *)

\* The 16 labels of lines 271-288, each written as one element under its
\* English name (the labels are Japanese text without a quote, a comma, a line
\* break or surrounding white space)
header ==
    << <<"date">>, <<"method">>, <<"category">>, <<"category-detail">>,
       <<"payment-source">>, <<"income-target">>, <<"item">>, <<"memo">>, <<"store">>,
       <<"currency">>, <<"income">>, <<"expense">>, <<"transfer">>,
       <<"balance-adjustment">>, <<"pre-conversion-amount">>, <<"aggregation-setting">> >>

\* /[",\n]/.test(value)
needsQuotes(value) == Contains(value, {QUOTE, COMMA, LF})

\* Mutant of doubleQuotes: the quotes inside a quoted field are left single
doubleQuotesKept(value) == value

\* value.replace(/"/g, '""')
doubleQuotes(value) ==
    Flatten([i \in 1..Len(value) |-> IF value[i] = QUOTE THEN <<QUOTE, QUOTE>> ELSE <<value[i]>>])

escapeCsv(value) ==
    IF ~needsQuotes(value) THEN value
    ELSE <<QUOTE>> \o doubleQuotes(value) \o <<QUOTE>>

\* The label of line 293, as one element
fallbackItem == <<"YodobashiCard">>

itemOf(entry, config) ==
    IF Len(trim(config.itemPrefix)) > 0
    THEN trim(trim(config.itemPrefix) \o <<" ">> \o entry.store)
    ELSE IF entry.store # <<>> THEN entry.store ELSE fallbackItem

memoOf(entry, config) ==
    LET first == IF Len(trim(config.memoPrefix)) > 0 THEN <<trim(config.memoPrefix)>> ELSE <<>>
        second == IF config.includeFilenameInMemo /\ entry.source # <<>>
                  THEN <<entry.source>> ELSE <<>>
    IN  join(first \o second, <<" ", "/", " ">>)

\* The 16 fields of one record's row
zaimRow(entry, config) ==
    << entry.date,
       trim(config.method),
       trim(config.category),
       trim(config.subcategory),
       trim(config.paymentSource),
       trim(config.incomeTarget),
       itemOf(entry, config),
       memoOf(entry, config),
       entry.store,
       trim(config.currency),
       <<"0">>,
       numberToString(entry.amount),
       <<"0">>,
       <<"0">>,
       numberToString(entry.amount),
       trim(config.aggregation) >>

\* row.map(escapeCsv).join(',')
csvLine(row) == join([i \in 1..Len(row) |-> escapeCsv(row[i])], <<COMMA>>)

\* Mutant of rowSeparator: rows joined by a bare line feed
rowSeparatorLF == <<LF>>

\* The separator of line 323
rowSeparator == <<CR, LF>>

buildZaimCsv(list, config) ==
    IF Len(list) = 0 THEN <<>>
    ELSE LET rows == [i \in 1..Len(list) |-> zaimRow(list[i], config)]
             all == <<header>> \o rows
         IN  join([i \in 1..Len(all) |-> csvLine(all[i])], rowSeparator)

---------------------------------------------------------------------------
(* sortedEntries: a copy of entries, sorted by date with localeCompare.    *)
(* Array.prototype.sort is stable.                                         *)

\* The collation order of the characters a record's date holds
charRank(c) == IF c \in Digits THEN DigitValue(c) + 1 ELSE 0

RECURSIVE localeCompare(_, _)
localeCompare(a, b) ==
    IF a = <<>> /\ b = <<>> THEN 0
    ELSE IF a = <<>> THEN -1
    ELSE IF b = <<>> THEN 1
    ELSE IF charRank(Head(a)) < charRank(Head(b)) THEN -1
    ELSE IF charRank(Head(a)) > charRank(Head(b)) THEN 1
    ELSE localeCompare(Tail(a), Tail(b))

\* Mutant of compareEntries: the operands swapped
compareEntriesSwapped(a, b) == localeCompare(b.date, a.date)

compareEntries(a, b) == localeCompare(a.date, b.date)

\* x goes after every element that does not compare greater than it
RECURSIVE insertSorted(_, _)
insertSorted(sorted, x) ==
    IF sorted = <<>> THEN <<x>>
    ELSE IF compareEntries(sorted[Len(sorted)], x) <= 0 THEN Append(sorted, x)
    ELSE Append(insertSorted(SubSeq(sorted, 1, Len(sorted) - 1), x), sorted[Len(sorted)])

RECURSIVE sortCopy(_)
sortCopy(list) ==
    IF list = <<>> THEN <<>>
    ELSE insertSorted(sortCopy(SubSeq(list, 1, Len(list) - 1)), list[Len(list)])

sortedEntries(list) == sortCopy(list)

csvText(list, config) == buildZaimCsv(sortedEntries(list), config)

---------------------------------------------------------------------------
(* The component's state after setup *)

defaultSettings ==
    [method |-> <<"payment">>,
     category |-> <<"Uncategorized">>,
     subcategory |-> <<"Uncategorized">>,
     paymentSource |-> <<"YodobashiGoldPointCardPlus">>,
     incomeTarget |-> <<"-">>,
     currency |-> <<"JPY">>,
     aggregation |-> <<"AlwaysInclude">>,
     itemPrefix |-> <<>>,
     memoPrefix |-> <<"YodobashiGPC+">>,
     includeFilenameInMemo |-> TRUE]

\* Lines 11-29 and 45, and the immediate run of the csvText watcher on the
\* empty document
AppInit ==
    /\ files = <<>>
    /\ entries = <<>>
    /\ errors = <<>>
    /\ isProcessing = FALSE
    /\ settings = defaultSettings
    /\ downloadUrl = <<>>
    /\ calls = <<>>
    /\ entriesBy = 0

---------------------------------------------------------------------------
(* parseCsv on every text up to MaxTextLen *)

MaxTextLen == 4

ParseAlphabet == {"a", " ", QUOTE, COMMA, LF, CR}

InitParse ==
    /\ AppInit
    /\ fnStage = "input"
    /\ fnArg \in [text : StringsUpTo(ParseAlphabet, MaxTextLen)]
    /\ fnResult = <<>>

RunParseCsv ==
    /\ fnStage = "input"
    /\ fnStage' = "done"
    /\ fnResult' = parseCsv(fnArg.text)
    /\ UNCHANGED <<fnArg, appVars>>

SpecParse == InitParse /\ [][RunParseCsv]_vars

\* C3: parse returns a field that was not quoted with its surrounding white
\* space removed, and returns the content of a quoted field exactly as written
\* between the quotes.  Stated for a text that is one field: a text without
\* quote, comma or line break yields the one field trim(text); a text "..."
\* whose content holds no quote yields the one field equal to the content.
C3_QuotedContentKept ==
    fnStage = "done" =>
        LET t == fnArg.text
            inner == SubSeq(t, 2, Len(t) - 1)
        IN  /\ (t # <<>> /\ ~Contains(t, {QUOTE, COMMA, LF, CR}))
                   => fnResult = << <<trim(t)>> >>
            /\ (Len(t) >= 3 /\ t[1] = QUOTE /\ t[Len(t)] = QUOTE /\ ~Contains(inner, {QUOTE}))
                   => fnResult = << <<inner>> >>

---------------------------------------------------------------------------
(* convertToEntries on statement rows: first columns of every shape, amount *)
(* strings up to MaxAmountLen in column 2 or column 5                       *)

Year == <<"2", "0", "2", "4">>

DateCandidates ==
    {Year \o <<s1>> \o <<"0", "1">> \o <<s2>> \o <<"1", "5">> : s1, s2 \in {"/", "-", "."}}
    \cup {<<" ">> \o Year \o <<"/", "0", "1", "/", "1", "5", " ">>,
          Year \o <<"/", "1", "/", "1", "5">>,
          Year \o <<"/", "0", "1", "/", "1", "5", "0">>,
          <<"2", "0", "x", "4", "-", "0", "1", "-", "1", "5">>,
          Year \o <<"0", "1", "1", "5">>,
          <<"T", "o", "t", "a", "l">>,
          <<>>}

AmountAlphabet == {"0", "5", "-", ".", "x"}

AmountStrings == StringsUpTo(AmountAlphabet, MaxAmountLen)

RawStore == <<" ", "S">>

\* One statement row: 1, 2, 3 or 6 columns
StatementRows ==
    {<<d>> : d \in DateCandidates}
    \cup {<<d, RawStore>> : d \in DateCandidates}
    \cup {<<d, RawStore, a>> : d \in DateCandidates, a \in AmountStrings}
    \cup {<<d, RawStore, c2, <<>>, <<>>, a>> :
            d \in DateCandidates, c2 \in {<<>>, <<"7">>}, a \in AmountStrings}

FooterRow == <<<<"T", "o", "t", "a", "l">>, <<>>, <<"9">>>>

InitMap ==
    /\ AppInit
    /\ fnStage = "input"
    /\ \E row \in StatementRows, more \in {<<>>, <<FooterRow>>} :
           fnArg = [rows |-> more \o <<row>>, source |-> <<"jan.csv">>]
    /\ fnResult = <<>>

\* The harness also records parseAmount of each row's amount string
RunConvertToEntries ==
    /\ fnStage = "input"
    /\ fnStage' = "done"
    /\ fnResult' = [records |-> convertToEntries(fnArg.rows, fnArg.source),
                    amounts |-> [i \in 1..Len(fnArg.rows) |->
                                    parseAmount(trim(amountColumn(fnArg.rows[i])))]]
    /\ UNCHANGED <<fnArg, appVars>>

SpecMap == InitMap /\ [][RunConvertToEntries]_vars

column(row, k) == IF Len(row) >= k + 1 THEN row[k + 1] ELSE <<>>

\* The amount string the specification names: column 5 when present and
\* non-empty, else column 2
ClaimedAmountString(row) ==
    IF column(row, 5) # <<>> THEN column(row, 5) ELSE column(row, 2)

\* The date test the specification names: one separator, used twice
StrictDate(date) ==
    /\ Len(date) = 10
    /\ \A i \in {1, 2, 3, 4, 6, 7, 9, 10} : date[i] \in Digits
    /\ date[5] \in {"/", "-"}
    /\ date[8] = date[5]

\* C1: for every row whose column 0 is a valid date, the amount is read from
\* column 5 when it is present and non-empty and from column 2 otherwise: the
\* amounts of the records are, in row order, the non-zero amounts parsed from
\* those strings.
C1_AmountFromColumn5Else2 ==
    fnStage = "done" =>
        [i \in 1..Len(fnResult.records) |-> fnResult.records[i].amount]
        = Flatten([i \in 1..Len(fnArg.rows) |->
              LET row == fnArg.rows[i]
                  amount == parseAmount(trim(ClaimedAmountString(row)))
              IN  IF datePattern(trim(column(row, 0))) /\ amount # 0
                  THEN <<amount>> ELSE <<>>])

\* C4: a record is emitted for a row only if its trimmed column 0 is four
\* digits, a separator, two digits, the same separator, two digits: there are
\* no more records than rows with such a date, and every record's date is the
\* normalized date of such a row.
C4_OnlySameSeparatorDates ==
    fnStage = "done" =>
        LET strict == {i \in 1..Len(fnArg.rows) : StrictDate(trim(column(fnArg.rows[i], 0)))}
        IN  /\ Len(fnResult.records) <= Cardinality(strict)
            /\ \A k \in 1..Len(fnResult.records) :
                   \E i \in strict :
                       fnResult.records[k].date = normalizeDate(trim(column(fnArg.rows[i], 0)))

\* C5: parseAmount is never negative, and every record has amount > 0: a row
\* whose amount is 0 yields no record (the records are exactly the rows that
\* pass the date test and have a non-zero amount).
C5_AmountPositive ==
    fnStage = "done" =>
        /\ \A i \in 1..Len(fnResult.amounts) : fnResult.amounts[i] >= 0
        /\ \A k \in 1..Len(fnResult.records) : fnResult.records[k].amount > 0
        /\ Len(fnResult.records)
           = Cardinality({i \in 1..Len(fnArg.rows) :
                 /\ datePattern(trim(column(fnArg.rows[i], 0)))
                 /\ fnResult.amounts[i] # 0})

\* A row with a negative amount string in column 5 gave a record
C5_Witness ==
    /\ fnStage = "done"
    /\ \E i \in 1..Len(fnArg.rows) :
           /\ Len(fnArg.rows[i]) = 6
           /\ fnArg.rows[i][6] = <<"-", "5">>
           /\ Len(fnResult.records) = 1
           /\ fnResult.records[1].amount = 5 * Scale

---------------------------------------------------------------------------
(* buildZaimCsv on record lists, and parseCsv of the text it returns.  The  *)
(* lists are those convertToEntries makes of one or two rows; the first     *)
(* row's store is any string up to MaxStoreLen.                             *)

MaxStoreLen == 3

StoreAlphabet == {"a", " ", QUOTE, COMMA, LF, CR}

StoreStrings == StringsUpTo(StoreAlphabet, MaxStoreLen)

ConfigChoices ==
    {defaultSettings,
     [defaultSettings EXCEPT !.itemPrefix = <<" ", "Y", " ">>],
     [defaultSettings EXCEPT !.memoPrefix = <<" ">>, !.includeFilenameInMemo = FALSE],
     [defaultSettings EXCEPT !.category = <<" ", "a", COMMA, QUOTE, "b", " ">>,
                             !.aggregation = <<"x", LF, "y">>,
                             !.currency = <<>>]}

FirstRows ==
    {<<Year \o <<"/", "0", "2", "/", "0", "1">>, st, <<>>, <<>>, <<>>, a>> :
        st \in StoreStrings, a \in {<<"1", COMMA, "2", "3", "4">>, <<"-", "1", ".", "5", "0">>}}

SecondRow == <<Year \o <<"-", "0", "1", "-", "1", "5">>, <<"b", LF, "c">>, <<"7">>>>

RecordLists ==
    {convertToEntries(<<r>> \o more, <<"jan.csv">>) :
        r \in FirstRows, more \in {<<>>, <<SecondRow>>}}

InitRender ==
    /\ AppInit
    /\ fnStage = "input"
    /\ fnArg \in [list : RecordLists, config : ConfigChoices]
    /\ fnResult = <<>>

\* render, then tokenize the text again
RunBuildZaimCsv ==
    /\ fnStage = "input"
    /\ fnStage' = "done"
    /\ LET text == buildZaimCsv(fnArg.list, fnArg.config)
       IN  fnResult' = [text |-> text, rows |-> parseCsv(text)]
    /\ UNCHANGED <<fnArg, appVars>>

SpecRender == InitRender /\ [][RunBuildZaimCsv]_vars

\* C2: for every record whose store holds a comma, a double quote or a
\* newline, the store field of that record's row, in the tokenized text of
\* render, is exactly the store string.
C2_StoreRoundTrip ==
    fnStage = "done" =>
        \A i \in 1..Len(fnArg.list) :
            Contains(fnArg.list[i].store, {COMMA, QUOTE, LF}) =>
                /\ Len(fnResult.rows) >= i + 1
                /\ Len(fnResult.rows[i + 1]) >= 9
                /\ fnResult.rows[i + 1][9] = fnArg.list[i].store

\* A store with a quote, a comma and a newline went through render and parse
C2_Witness ==
    /\ fnStage = "done"
    /\ \E i \in 1..Len(fnArg.list) :
           LET st == fnArg.list[i].store IN
           /\ Contains(st, {COMMA}) /\ Contains(st, {QUOTE}) /\ Contains(st, {LF})
           /\ fnResult.rows[i + 1][9] = st

\* The line breaks of a CSV text that are row ends: those outside quotes, that
\* is after an even number of double quotes
RowBreaks(text) ==
    {i \in 1..Len(text) :
        /\ text[i] = LF
        /\ Cardinality({j \in 1..(i - 1) : text[j] = QUOTE}) % 2 = 0}

\* C6: for a list of n >= 1 records the text is a header row and n data rows
\* joined by CRLF, with no terminator; tokenized, it has n + 1 rows of 16
\* fields, the first being the header, and data row i has record i's date in
\* column 1, its amount in the expense column (12) and "0" as income (11),
\* transfer (13) and balance adjustment (14).
C6_DocumentShape ==
    fnStage = "done" =>
        LET n == Len(fnArg.list)
            text == fnResult.text
            rows == fnResult.rows
        IN  /\ n >= 1
            /\ Cardinality(RowBreaks(text)) = n
            /\ \A i \in RowBreaks(text) : i > 1 /\ text[i - 1] = CR
            /\ text[Len(text)] \notin {CR, LF}
            /\ Len(rows) = n + 1
            /\ rows[1] = header
            /\ \A r \in 1..Len(rows) : Len(rows[r]) = 16
            /\ \A i \in 1..n :
                   /\ rows[i + 1][1] = fnArg.list[i].date
                   /\ rows[i + 1][12] = numberToString(fnArg.list[i].amount)
                   /\ parseFloat(rows[i + 1][12]) = [nan |-> FALSE, val |-> fnArg.list[i].amount]
                   /\ rows[i + 1][11] = <<"0">>
                   /\ rows[i + 1][13] = <<"0">>
                   /\ rows[i + 1][14] = <<"0">>

\* Two records, one with a line break inside its store, were rendered
C6_Witness ==
    /\ fnStage = "done"
    /\ Len(fnArg.list) = 2
    /\ Contains(fnArg.list[1].store, {LF})
    /\ Len(fnResult.rows) = 3
    /\ fnResult.rows[2][12] = <<"1", ".", "5">>

---------------------------------------------------------------------------
(* The files the user can load.  A File is named by an id; its buffer is    *)
(* given by the two decodings of its bytes.                                 *)

\* A UTF-8 file: read as Shift-JIS, its store names are undecodable
FebText == <<
        "2", "0", "2", "4", "/", "0", "2", "/", "0", "3", COMMA, "B", COMMA, COMMA, COMMA,
        COMMA, QUOTE, "1", COMMA, "2", "0", "0", QUOTE, CR, LF, "2", "0", "2", "4", "/",
        "0", "2", "/", "0", "1", COMMA, "A", COMMA, COMMA, COMMA, COMMA, "3", "0", "0", CR,
        LF >>

FebShiftJis == <<
        "2", "0", "2", "4", "/", "0", "2", "/", "0", "3", COMMA, REPLACEMENT, COMMA, COMMA,
        COMMA, COMMA, QUOTE, "1", COMMA, "2", "0", "0", QUOTE, CR, LF, "2", "0", "2", "4",
        "/", "0", "2", "/", "0", "1", COMMA, REPLACEMENT, COMMA, COMMA, COMMA, COMMA, "3",
        "0", "0", CR, LF >>

\* A Shift-JIS file: read as UTF-8, its Japanese labels are undecodable
JanText == <<
        "D", "a", "t", "e", COMMA, "S", "t", "o", "r", "e", COMMA, "A", "m", "o", "u", "n",
        "t", LF, "2", "0", "2", "4", "-", "0", "2", "-", "0", "1", COMMA, "C", COMMA, "5",
        "0", "0", LF, "2", "0", "2", "4", "/", "0", "1", "/", "0", "5", COMMA, QUOTE, "D",
        COMMA, " ", "I", "n", "c", QUOTE, COMMA, "-", "7", "0", "0", LF, "T", "o", "t",
        "a", "l", COMMA, COMMA, "1", "2", "0", "0", LF >>

JanUtf8 == <<
        REPLACEMENT, COMMA, REPLACEMENT, COMMA, REPLACEMENT, LF, "2", "0", "2", "4", "-",
        "0", "2", "-", "0", "1", COMMA, "C", COMMA, "5", "0", "0", LF, "2", "0", "2", "4",
        "/", "0", "1", "/", "0", "5", COMMA, QUOTE, "D", COMMA, " ", "I", "n", "c", QUOTE,
        COMMA, "-", "7", "0", "0", LF, REPLACEMENT, COMMA, COMMA, "1", "2", "0", "0", LF >>

\* A statement with no transaction
HdrText == <<
        "D", "a", "t", "e", COMMA, "S", "t", "o", "r", "e", LF >>

\* public/yodobashi-sample.csv, fetched by handleLoadSample
SampleText == <<
        "2", "0", "2", "4", "/", "0", "3", "/", "0", "1", COMMA, "E", COMMA, COMMA, COMMA,
        COMMA, "1", "0", "0", LF >>

FileName(f) == <<f, ".", "c", "s", "v">>

FileBuffer(f) ==
    CASE f = "feb" -> [shiftJis |-> FebShiftJis, utf8 |-> FebText]
      [] f = "jan" -> [shiftJis |-> JanText, utf8 |-> JanUtf8]
      [] f = "hdr" -> [shiftJis |-> HdrText, utf8 |-> HdrText]

SampleBuffer == [shiftJis |-> SampleText, utf8 |-> SampleText]

\* new File([], 'yodobashi-sample.csv')
SampleFile == "yodobashi-sample"

\* The non-empty file lists the user drops or picks
Batches == {<<"feb", "jan">>, <<"jan", "feb">>, <<"hdr">>}

---------------------------------------------------------------------------
(* The component.  Every handler runs to its next await as one step; the    *)
(* csvText watcher (flush 'pre') runs in the microtask that follows the     *)
(* step, before any other event, so each step ends with it.                 *)

MaxCalls == 2

LoadFailedMessage == "CSV load failed"
SampleFailedMessage == "sample load failed"

\* URL.createObjectURL(new Blob([value])): a non-empty string naming the blob
createObjectURL(value) == <<"blob:">> \o value

\* Mutant of watchCsvText: the url is not reset for the empty document
watchCsvTextKeepUrl(value, oldValue, oldUrl) ==
    IF value = oldValue THEN oldUrl ELSE createObjectURL(value)

\* The watcher's callback, run when csvText has changed (lines 47-61)
watchCsvText(value, oldValue, oldUrl) ==
    IF value = oldValue THEN oldUrl
    ELSE IF value = <<>> THEN <<>>
    ELSE createObjectURL(value)

\* csvText is computed again only when entries or settings was assigned
Flush ==
    IF entries' = entries /\ settings' = settings
    THEN downloadUrl' = downloadUrl
    ELSE downloadUrl' = watchCsvText(csvText(entries', settings'),
                                     csvText(entries, settings), downloadUrl)

\* A call that has returned: its local variables incoming and parsedEntries are gone
Returned(call, pc) == [call EXCEPT !.pc = pc, !.incoming = <<>>, !.parsedEntries = <<>>]

\* The records of one file, as the loop body of handleFiles makes them
loadFile(f) == convertToEntries(parseCsv(decodeCsv(FileBuffer(f))), FileName(f))

InFlight(c) == calls[c].pc \in {"arrayBuffer", "fetch", "responseBuffer"}

\* handleFiles (also behind handleDrop and handleFileChange, which return on
\* an empty list as it does): up to the first await
handleFiles(incoming) ==
    /\ Len(calls) < MaxCalls
    /\ Len(incoming) # 0
    /\ files' = incoming
    /\ entries' = <<>>
    /\ errors' = <<>>
    /\ isProcessing' = TRUE
    /\ calls' = Append(calls, [kind |-> "files", incoming |-> incoming,
                               pc |-> "arrayBuffer", i |-> 1, parsedEntries |-> <<>>])
    /\ entriesBy' = 0
    /\ UNCHANGED settings
    /\ Flush

\* file.arrayBuffer() of file i resolves: the rest of the loop body, then the
\* next await or, after the last file, the commit and the finally block
arrayBufferResolved(c) ==
    /\ calls[c].pc = "arrayBuffer"
    /\ LET call == calls[c]
           parsed == call.parsedEntries \o loadFile(call.incoming[call.i])
       IN  IF call.i < Len(call.incoming)
           THEN /\ calls' = [calls EXCEPT ![c].i = call.i + 1, ![c].parsedEntries = parsed]
                /\ UNCHANGED <<entries, entriesBy, isProcessing>>
           ELSE /\ calls' = [calls EXCEPT ![c] = Returned(call, "done")]
                /\ entries' = parsed
                /\ entriesBy' = c
                /\ isProcessing' = FALSE
    /\ UNCHANGED <<files, errors, settings>>
    /\ Flush

\* Mutant of handleFilesCatch: the records parsed so far are committed
handleFilesCatchPartial(c) ==
    [entries |-> calls[c].parsedEntries, entriesBy |-> c,
     errors |-> Append(errors, LoadFailedMessage)]

\* The catch block of handleFiles (lines 89-91): what it leaves in entries and errors
handleFilesCatch(c) ==
    [entries |-> entries, entriesBy |-> entriesBy,
     errors |-> Append(errors, LoadFailedMessage)]

\* file.arrayBuffer() of file i rejects: catch, then finally
arrayBufferRejected(c) ==
    /\ calls[c].pc = "arrayBuffer"
    /\ entries' = handleFilesCatch(c).entries
    /\ entriesBy' = handleFilesCatch(c).entriesBy
    /\ errors' = handleFilesCatch(c).errors
    /\ isProcessing' = FALSE
    /\ calls' = [calls EXCEPT ![c] = Returned(calls[c], "failed")]
    /\ UNCHANGED <<files, settings>>
    /\ Flush

\* handleLoadSample: up to the await of fetch
handleLoadSample ==
    /\ Len(calls) < MaxCalls
    /\ isProcessing' = TRUE
    /\ errors' = <<>>
    /\ calls' = Append(calls, [kind |-> "sample", incoming |-> <<>>,
                               pc |-> "fetch", i |-> 0, parsedEntries |-> <<>>])
    /\ UNCHANGED <<files, entries, entriesBy, settings>>
    /\ Flush

\* The catch and finally blocks of handleLoadSample
sampleFailed(c) ==
    /\ errors' = Append(errors, SampleFailedMessage)
    /\ isProcessing' = FALSE
    /\ calls' = [calls EXCEPT ![c] = Returned(calls[c], "failed")]
    /\ UNCHANGED <<files, entries, entriesBy, settings>>
    /\ Flush

\* fetch resolves: with response.ok the call awaits response.arrayBuffer(),
\* otherwise it throws
fetchResolved(c, ok) ==
    /\ calls[c].pc = "fetch"
    /\ IF ok
       THEN /\ calls' = [calls EXCEPT ![c].pc = "responseBuffer"]
            /\ UNCHANGED <<files, entries, entriesBy, errors, isProcessing, settings>>
            /\ Flush
       ELSE sampleFailed(c)

fetchRejected(c) ==
    /\ calls[c].pc = "fetch"
    /\ sampleFailed(c)

responseBufferResolved(c) ==
    /\ calls[c].pc = "responseBuffer"
    /\ LET sampleEntries ==
               convertToEntries(parseCsv(decodeCsv(SampleBuffer)), FileName(SampleFile))
       IN  /\ files' = <<SampleFile>>
           /\ entries' = sampleEntries
           /\ calls' = [calls EXCEPT ![c] = Returned(calls[c], "done")]
    /\ entriesBy' = c
    /\ isProcessing' = FALSE
    /\ UNCHANGED <<errors, settings>>
    /\ Flush

responseBufferRejected(c) ==
    /\ calls[c].pc = "responseBuffer"
    /\ sampleFailed(c)

clearAll ==
    /\ files' = <<>>
    /\ entries' = <<>>
    /\ errors' = <<>>
    /\ entriesBy' = 0
    /\ UNCHANGED <<isProcessing, settings, calls>>
    /\ Flush

\* The edits of the settings form (v-model, lines 400-437) the model takes
SettingEdits ==
    {[field |-> "itemPrefix", value |-> <<"Y">>],
     [field |-> "itemPrefix", value |-> <<>>]}

editSetting(e) ==
    /\ settings[e.field] # e.value
    /\ settings' = [settings EXCEPT ![e.field] = e.value]
    /\ UNCHANGED <<files, entries, entriesBy, errors, isProcessing, calls>>
    /\ Flush

Init ==
    /\ AppInit
    /\ fnStage = "idle"
    /\ fnArg = <<>>
    /\ fnResult = <<>>

Next ==
    \/ \E incoming \in Batches : handleFiles(incoming) /\ UNCHANGED fnVars
    \/ \E c \in 1..Len(calls) : arrayBufferResolved(c) /\ UNCHANGED fnVars
    \/ \E c \in 1..Len(calls) : arrayBufferRejected(c) /\ UNCHANGED fnVars
    \/ handleLoadSample /\ UNCHANGED fnVars
    \/ \E c \in 1..Len(calls), ok \in BOOLEAN : fetchResolved(c, ok) /\ UNCHANGED fnVars
    \/ \E c \in 1..Len(calls) : fetchRejected(c) /\ UNCHANGED fnVars
    \/ \E c \in 1..Len(calls) : responseBufferResolved(c) /\ UNCHANGED fnVars
    \/ \E c \in 1..Len(calls) : responseBufferRejected(c) /\ UNCHANGED fnVars
    \/ clearAll /\ UNCHANGED fnVars
    \/ \E e \in SettingEdits : editSetting(e) /\ UNCHANGED fnVars

Spec == Init /\ [][Next]_vars

---------------------------------------------------------------------------
(* Properties of the component *)

sampleEntries == convertToEntries(parseCsv(decodeCsv(SampleBuffer)), FileName(SampleFile))

\* The records of a whole file list, in file order then row order
LoadOrder(fileList) ==
    IF fileList = <<SampleFile>> THEN sampleEntries
    ELSE Flatten([k \in 1..Len(fileList) |-> loadFile(fileList[k])])

CompleteLoads == {LoadOrder(b) : b \in Batches} \cup {sampleEntries}

Quiescent == \A c \in 1..Len(calls) : ~InFlight(c)

\* C7: once a file read of a handleFiles batch has failed, no record of that
\* batch is in entries, then or later: the failed call is never the one whose
\* commit entries holds, and entries is always empty or the complete result of
\* a call that returned without failure (never the records of the files read
\* before a failure).
C7_NoPartialCommit ==
    /\ \A c \in 1..Len(calls) :
           (calls[c].kind = "files" /\ calls[c].pc = "failed") => entriesBy # c
    /\ entries # <<>> =>
           /\ entriesBy \in 1..Len(calls)
           /\ calls[entriesBy].pc = "done"
           /\ entries \in CompleteLoads

\* The read of the second file of a batch failed after the first was read and mapped
C7_Witness ==
    /\ \E c \in 1..Len(calls) :
           calls[c].kind = "files" /\ calls[c].pc = "failed" /\ calls[c].i = 2
    /\ files = <<"feb", "jan">>
    /\ entries = <<>>
    /\ errors = <<LoadFailedMessage>>

\* C8: render of the empty list is the empty string under the current
\* settings, and downloadUrl is the empty string exactly when entries is empty.
C8_UrlIffRecords ==
    /\ buildZaimCsv(<<>>, settings) = <<>>
    /\ (downloadUrl = <<>>) <=> (entries = <<>>)

\* Records are loaded and a file is offered, after a settings edit
C8_Witness ==
    /\ entries # <<>>
    /\ downloadUrl # <<>>
    /\ settings.itemPrefix = <<"Y">>
    /\ \E c \in 1..Len(calls) : calls[c].pc = "failed"

\* C9: isProcessing is true while any call is in flight; and once every
\* started call has returned, the records in entries are those of the call
\* started last and correspond to the files shown.
C9_LastCallWins ==
    /\ (\E c \in 1..Len(calls) : InFlight(c)) => isProcessing
    /\ (Quiescent /\ entries # <<>>) =>
           /\ entriesBy = Len(calls)
           /\ entries = LoadOrder(files)

\* The text of the file on offer
document == IF downloadUrl = <<>> THEN <<>> ELSE Tail(downloadUrl)

\* A date YYYY-MM-DD as the number YYYYMMDD
DateNumber(date) == ToNat(SelectSeq(date, LAMBDA ch : ch \in Digits))

\* C10: the data rows of the exported document are in non-decreasing date
\* order; the rows of one date are the records of that date in load order; and
\* entries itself stays in load order (file order, then row order).
C10_SortedStableExport ==
    entries # <<>> =>
        LET rows == parseCsv(document)
            n == Len(entries)
            exported == [i \in 1..(Len(rows) - 1) |->
                            [date |-> rows[i + 1][1], store |-> rows[i + 1][9],
                             amount |-> parseAmount(rows[i + 1][12])]]
            loaded == [i \in 1..n |->
                          [date |-> entries[i].date, store |-> entries[i].store,
                           amount |-> entries[i].amount]]
        IN  /\ Len(rows) = n + 1
            /\ \A i, j \in 1..n :
                   i < j => DateNumber(exported[i].date) <= DateNumber(exported[j].date)
            /\ \A d \in {entries[i].date : i \in 1..n} :
                   SelectSeq(exported, LAMBDA r : r.date = d)
                   = SelectSeq(loaded, LAMBDA r : r.date = d)
            /\ entries \in CompleteLoads

\* Two files are loaded later dates first, with one date in both files
C10_Witness ==
    /\ entries = loadFile("feb") \o loadFile("jan")
    /\ entries[2].date = entries[3].date
    /\ DateNumber(entries[1].date) > DateNumber(entries[4].date)
    /\ document # <<>>

===========================================================================
